---- MODULE Spec2Model ----
(***************************************************************************)
(* A model of himmybot.py: the keyword intent classifier (detect_intent),  *)
(* the response composer (build_response), the command parser and          *)
(* handlers (parse_command, the handlers), and the chat loop with its quiz *)
(* state (run_chat, Conversation).                                         *)
(*                                                                         *)
(* Text is a TLA+ string; TLC evaluates Len, SubSeq, Head, Tail and \o on  *)
(* strings, so the string functions below are computed character by        *)
(* character as the Python code computes them.                             *)
(***************************************************************************)
EXTENDS Integers, Sequences, FiniteSets, TLC

VARIABLES
    awaiting,     \* conv.awaiting: None or the tag of the pending question
    answer,       \* conv.answer: None or the expected answer
    running,      \* TRUE while the while-loop of run_chat has not hit a break
    line,         \* what input("> ") returned in the last iteration
    user_input,   \* the local user_input of run_chat: line.strip()
    path,         \* which branch of the loop body handled the last iteration
    printed,      \* the lines printed by the last iteration, in order
    handlers,     \* the keys of the module-level dict COMMAND_HANDLERS
    fn,           \* function-level runs: the function under call
    arg,          \* function-level runs: its argument
    ret,          \* function-level runs: its return value, once called
    pc            \* function-level runs: "call" before the call, "return" after it

vars == <<awaiting, answer, running, line, user_input, path, printed, handlers, handlers, fn, arg, ret, pc>>

\* Python's None; no field of the program ever holds this text as a string.
None == "None"

----------------------------------------------------------------------------
(* Bounds of the model *)

\* Each template pool is modelled by its first MaxPool entries.
MaxPool == 2
\* Classifier inputs are built from at most MaxWords vocabulary items.
MaxWords == 2

----------------------------------------------------------------------------
(* Characters and the str methods the code uses *)

Min(a, b) == IF a < b THEN a ELSE b

Chars(s) == {SubSeq(s, i, i) : i \in 1..Len(s)}

LowerLetters == "abcdefghijklmnopqrstuvwxyz"
UpperLetters == "ABCDEFGHIJKLMNOPQRSTUVWXYZ"
Digits == "0123456789"

DigitChars == Chars(Digits)
UpperChars == Chars(UpperLetters)
\* \w of re (Unicode-aware in Python 3: the letter of "tiësto" is a word character)
WordChars == Chars(LowerLetters) \cup Chars(UpperLetters) \cup Chars(Digits) \cup {"_", "ë"}
\* the lower-case letter of each upper-case letter
LowerOf ==
    [c \in UpperChars |->
        LET i == CHOOSE j \in 1..Len(UpperLetters) : SubSeq(UpperLetters, j, j) = c
        IN  SubSeq(LowerLetters, i, i)]

IsDigit(c) == c \in DigitChars
\* \s of re and the characters str.strip() removes
SpaceChars == {" ", "\t"}
IsSpace(c) == c \in SpaceChars
IsWord(c) == c \in WordChars

LowerChar(c) == IF c \in UpperChars THEN LowerOf[c] ELSE c

\* str.lower()
RECURSIVE lower(_)
lower(s) == IF s = "" THEN "" ELSE LowerChar(Head(s)) \o lower(Tail(s))

\* str.strip(): leading and trailing whitespace removed
strip(s) ==
    IF \A i \in 1..Len(s) : IsSpace(SubSeq(s, i, i))
    THEN ""
    ELSE LET first == CHOOSE i \in 1..Len(s) :
                          /\ ~IsSpace(SubSeq(s, i, i))
                          /\ \A j \in 1..(i - 1) : IsSpace(SubSeq(s, j, j))
             last  == CHOOSE i \in 1..Len(s) :
                          /\ ~IsSpace(SubSeq(s, i, i))
                          /\ \A j \in (i + 1)..Len(s) : IsSpace(SubSeq(s, j, j))
         IN  SubSeq(s, first, last)

\* Python's  k in s  for strings
Contains(s, k) == \E i \in 1..(Len(s) - Len(k) + 1) : SubSeq(s, i, i + Len(k) - 1) = k

\* str.endswith
EndsWith(s, k) == Len(s) >= Len(k) /\ SubSeq(s, Len(s) - Len(k) + 1, Len(s)) = k

\* \b of re at the gap before position p (1 <= p <= Len(s) + 1): exactly one
\* of the two neighbours is a word character; outside the string counts as not one
Boundary(s, p) ==
    LET before == p > 1 /\ IsWord(SubSeq(s, p - 1, p - 1))
        after  == p <= Len(s) /\ IsWord(SubSeq(s, p, p))
    IN  before # after

\* re.search(r"\b" + re.escape(k) + r"\b", s)
WordMatch(s, k) ==
    \E i \in 1..(Len(s) - Len(k) + 1) :
        /\ SubSeq(s, i, i + Len(k) - 1) = k
        /\ Boundary(s, i)
        /\ Boundary(s, i + Len(k))

----------------------------------------------------------------------------
(* Keyword groups *)

_PHOTO_KEYWORDS == <<"photo", "picture", "pic", "camera", "photograph", "photography", "sunset",
                     "golden hour", "shot", "dslr", "lens", "iso", "aperture", "exposure">>
_PATAPSC0_KEYS == <<"patapsco", "patapsco valley", "ellicott", "ellicott city">>
_SLED_KEYS == <<"sled", "sledding", "st. john", "st john", "st. john's", "st john's", "st. johns",
                "st johns", "st. john's lane", "st johns lane", "st john's lane">>
_EDM_KEYS == <<"edm", "calvin", "flume", "deadmau5", "skrillex", "tiesto", "tiësto",
               "martin garrix", "garrix", "marshmello", "diplo">>
_GAME_KEYS == <<"game", "survev", "surviv", "io game", "surviv.io", "survev.io", "match",
                "clutch", "grind", "play">>
_HISTORY_KEYS == <<"history", "world history", "ap world", "ap world history", "mr. walters",
                   "mr walters", "walter", "walters", "ww2", "wwii", "world war 2",
                   "world war ii", "second world war">>
_APENV_KEYS == <<"ap env", "ap environmental", "apes", "environmental science", "ms. mcgarry",
                 "ms mcgarry", "mcgarry", "mrs mcgarry">>
_GREET_KEYS == <<"hi", "hello", "hey", "hiya", "yo", "sup">>
_SIMPLE_QS == <<"who are you", "what's your name", "what is your name", "how are you",
                "how's it going", "what are you up to">>
\* the inline list of detect_intent's WWII rule
WW2_TOKENS == <<"ww2", "wwii", "world war 2", "world war ii", "second world war">>

\* _contains_any(text, keywords)
_contains_any(text, keywords) ==
    LET text_l == lower(text)
    IN  \E n \in 1..Len(keywords) :
            /\ keywords[n] # ""
            /\ WordMatch(text_l, lower(keywords[n]))

\* a variant of AnySubstring that matches whole words only, as _contains_any does
AnySubstring_whole_words(ui, keys) == \E n \in 1..Len(keys) : WordMatch(ui, keys[n])

\* any(k in ui for k in keys)
AnySubstring(ui, keys) == \E n \in 1..Len(keys) : Contains(ui, keys[n])

----------------------------------------------------------------------------
(* detect_intent *)

\* a variant of detect_intent that tests the photography group before the
\* Patapsco-and-photo pair
detect_intent_photo_first(text) ==
    LET ui == lower(text)
    IN  IF strip(ui) = "" THEN None
        ELSE IF _contains_any(ui, _GREET_KEYS) \/ AnySubstring(ui, _SIMPLE_QS) THEN "greeting"
        ELSE IF AnySubstring(ui, WW2_TOKENS) THEN "ww2"
        ELSE IF Contains(ui, "walter") \/ Contains(ui, "mr. walters") \/ Contains(ui, "mr walters")
             THEN "mr_walters"
        ELSE IF _contains_any(ui, _APENV_KEYS) THEN "apenv"
        ELSE IF _contains_any(ui, _SLED_KEYS) THEN "sled"
        ELSE IF _contains_any(ui, _PHOTO_KEYWORDS) THEN "photography"
        ELSE IF _contains_any(ui, _PATAPSC0_KEYS) /\ _contains_any(ui, _PHOTO_KEYWORDS)
             THEN "patapsco_photo"
        ELSE IF _contains_any(ui, _EDM_KEYS) THEN "edm"
        ELSE IF _contains_any(ui, _GAME_KEYS) THEN "game"
        ELSE IF _contains_any(ui, _HISTORY_KEYS) THEN "history"
        ELSE IF Contains(ui, "recommend") \/ Contains(ui, "rec") THEN "recommend"
        ELSE IF EndsWith(strip(ui), "?") THEN "unknown_question"
        ELSE None

detect_intent(text) ==
    LET ui == lower(text)
    IN  IF strip(ui) = "" THEN None
        ELSE IF _contains_any(ui, _GREET_KEYS) \/ AnySubstring(ui, _SIMPLE_QS) THEN "greeting"
        ELSE IF AnySubstring(ui, WW2_TOKENS) THEN "ww2"
        ELSE IF Contains(ui, "walter") \/ Contains(ui, "mr. walters") \/ Contains(ui, "mr walters")
             THEN "mr_walters"
        ELSE IF _contains_any(ui, _APENV_KEYS) THEN "apenv"
        ELSE IF _contains_any(ui, _PATAPSC0_KEYS) /\ _contains_any(ui, _PHOTO_KEYWORDS)
             THEN "patapsco_photo"
        ELSE IF _contains_any(ui, _SLED_KEYS) THEN "sled"
        ELSE IF _contains_any(ui, _PHOTO_KEYWORDS) THEN "photography"
        ELSE IF _contains_any(ui, _EDM_KEYS) THEN "edm"
        ELSE IF _contains_any(ui, _GAME_KEYS) THEN "game"
        ELSE IF _contains_any(ui, _HISTORY_KEYS) THEN "history"
        ELSE IF Contains(ui, "recommend") \/ Contains(ui, "rec") THEN "recommend"
        ELSE IF EndsWith(strip(ui), "?") THEN "unknown_question"
        ELSE None

----------------------------------------------------------------------------
(* Replies *)

(* A reply is the sequence of the pieces its f-string (or print call) joins  *)
(* with spaces.  A piece is a pool entry (kind and index), a fixed sentence  *)
(* (kind), a piece of the user's text (kind and text), the empty string, or  *)
(* a number list (the dice).                                                 *)
F(kind, idx, text, nums) == [kind |-> kind, idx |-> idx, text |-> text, nums |-> nums]

Empty == F("empty", 0, "", <<>>)                      \* ""
Opener(i) == F("opener", i, "", <<>>)                 \* OPENERS[i]
Topic(i) == F("topic", i, "", <<>>)                   \* TOPICS[i]
FollowUp(i) == F("follow_up", i, "", <<>>)            \* FOLLOW_UPS[i]
Quip(i) == F("quip", i, "", <<>>)                     \* QUIPS[i]
Rejection(i) == F("rejection", i, "", <<>>)           \* REJECTIONS[i]
SURVEV_LINE == F("SURVEV_LINE", 0, "", <<>>)
\* the i-th line of the line pool (or the one fixed line) of an intent
Flavor(intent, i) == F("flavor", i, intent, <<>>)
\* a fixed sentence of one branch: local, resource_tip, lab_tip
Fixed(name) == F("fixed", 0, name, <<>>)
\* "You said: {user_input.strip()} —"
Echo(text) == F("echo", 0, text, <<>>)

\* the sizes of the pools
NumOpeners == 10
NumTopics == 14
NumFollowUps == 12
NumQuips == 23
NumRejections == 6
NumLines == 3

\* random.choice over a pool of n entries: an index
Choice(n) == 1..Min(n, MaxPool)
\* random.random() < p, for 0 < p < 1
Chance == BOOLEAN

\* a piece is the empty string
IsEmptyPiece(p) == p.kind = "empty"

\* quirk_or_quip(quip_text)
quirk_or_quip(quip_text) == IF IsEmptyPiece(quip_text) THEN Empty ELSE quip_text

\* prefix = opener if random.random() < p else ""
Prefixes(opener) == {IF c THEN opener ELSE Empty : c \in Chance}

\* a variant of Tailored that puts the tagline before the quip
Tailored_tagline_first(intent, fixed, opener, follow_up, quip) ==
    { <<prefix, Flavor(intent, l)>> \o fixed \o <<SURVEV_LINE, quirk_or_quip(quip), follow_up>> :
        prefix \in Prefixes(opener), l \in Choice(NumLines) }

\* the branches of build_response that share the shape
\*   f"{prefix} {random.choice(lines)} [{fixed}] {quirk_or_quip(quip)} {SURVEV_LINE} {follow_up}"
Tailored(intent, fixed, opener, follow_up, quip) ==
    { <<prefix, Flavor(intent, l)>> \o fixed \o <<quirk_or_quip(quip), SURVEV_LINE, follow_up>> :
        prefix \in Prefixes(opener), l \in Choice(NumLines) }

\* the body of build_response after  intent = detect_intent(user_input):
\* the replies it can return
Compose(text, intent) ==
    UNION { LET opener == Opener(o)
                follow_up == FollowUp(f)
                quip == Quip(q)
            IN  CASE intent = "greeting" ->
                       { <<prefix, Flavor("greeting", 1), SURVEV_LINE, follow_up>> :
                            prefix \in Prefixes(opener) }
                  [] intent = "patapsco_photo" ->
                       { <<opener, Flavor("patapsco_photo", 1), quirk_or_quip(quip),
                           SURVEV_LINE, follow_up>> }
                  [] intent = "photography" ->
                       { <<prefix, Flavor("photography", tips), local, quirk_or_quip(quip),
                           SURVEV_LINE, follow_up>> :
                            prefix \in Prefixes(opener), tips \in Choice(NumLines),
                            local \in {Fixed("local"), Empty} }
                  [] intent \in {"sled", "edm", "game", "recommend", "history"} ->
                       Tailored(intent, <<>>, opener, follow_up, quip)
                  [] intent = "ww2" ->
                       Tailored(intent, <<Fixed("resource_tip")>>, opener, follow_up, quip)
                  [] intent = "mr_walters" ->
                       { <<prefix, Flavor("mr_walters", 1), quirk_or_quip(quip),
                           SURVEV_LINE, follow_up>> :
                            prefix \in Prefixes(opener) }
                  [] intent = "apenv" ->
                       Tailored(intent, <<Fixed("lab_tip")>>, opener, follow_up, quip)
                  [] intent = "unknown_question" ->
                       { <<prefix, Rejection(r), follow_up>> :
                            prefix \in Prefixes(opener), r \in Choice(NumRejections) }
                  [] OTHER ->
                       \* the fallback; the base built first is kept only for blank text
                       { LET base == IF strip(text) # ""
                                     THEN IF echo
                                          THEN <<opener, Echo(strip(text)), Topic(t)>>
                                          ELSE <<opener, Topic(t)>>
                                     ELSE <<opener, Topic(t)>>
                         IN  base \o <<quip, SURVEV_LINE, follow_up>> :
                            t \in Choice(NumTopics), echo \in Chance }
          : o \in Choice(NumOpeners), f \in Choice(NumFollowUps), q \in Choice(NumQuips) }

\* a variant of build_response without the unknown_question branch: such a
\* text falls to the fallback
build_response_question_falls_back(text) ==
    Compose(text, IF detect_intent(text) = "unknown_question" THEN None ELSE detect_intent(text))

\* build_response(user_input): the replies it can return
build_response(text) == Compose(text, detect_intent(text))

----------------------------------------------------------------------------
(* parse_command *)

\* the end of the longest run of characters of a class that starts at
\* position p (p - 1 when the character at p is not of the class)
RunEnd(s, p, class) ==
    CHOOSE e \in (p - 1)..Len(s) :
        /\ \A i \in p..e : SubSeq(s, i, i) \in class
        /\ (e = Len(s) \/ SubSeq(s, e + 1, e + 1) \notin class)

\* [,:\s]
SepChars == {",", ":"} \cup SpaceChars
IsSep(c) == c \in SepChars

\* (\w+)(?:\s+(.*))?$  matched from position p: the groups, or no match
NameAndArgs(s, p) ==
    LET e == RunEnd(s, p, WordChars)
    IN  IF e < p THEN [cmd |-> None, arg |-> ""]
        ELSE IF e = Len(s) THEN [cmd |-> lower(SubSeq(s, p, e)), arg |-> strip("")]
        ELSE IF IsSpace(SubSeq(s, e + 1, e + 1))
             THEN LET w == RunEnd(s, e + 1, SpaceChars)
                  IN  [cmd |-> lower(SubSeq(s, p, e)), arg |-> strip(SubSeq(s, w + 1, Len(s)))]
        ELSE [cmd |-> None, arg |-> ""]

\* parse_command(user_input): (command, args), command None when neither form matches
parse_command(text) ==
    LET s  == strip(text)
        m  == IF Len(s) >= 1 /\ SubSeq(s, 1, 1) \in {"/", "!"}
              THEN NameAndArgs(s, 2)
              ELSE [cmd |-> None, arg |-> ""]
        m2 == IF Len(s) >= 6 /\ lower(SubSeq(s, 1, 5)) = "himmy" /\ IsSep(SubSeq(s, 6, 6))
              THEN NameAndArgs(s, RunEnd(s, 6, SepChars) + 1)
              ELSE [cmd |-> None, arg |-> ""]
    IN  IF m.cmd # None THEN m
        ELSE IF m2.cmd # None THEN m2
        ELSE [cmd |-> None, arg |-> ""]

----------------------------------------------------------------------------
(* Command handlers *)

\* the text of a handler, and of the fixed sentences of run_chat
Text(name) == F("text", 0, name, <<>>)
\* a piece that carries text of the user: f" Extra: {arg}", '{arg}', '{cmd}'
UserText(name, text) == F(name, 0, text, <<>>)

\* handle_photo(arg): the replies it can return
handle_photo(a) ==
    { <<F("photo_tip", t, "", <<>>)>> \o (IF a # "" THEN <<UserText("extra", a)>> ELSE <<>>) :
        t \in Choice(NumLines) }

\* handle_rec(arg)
handle_rec(a0) ==
    LET a == lower(a0)
    IN  IF Contains(a, "edm") THEN <<Text("rec_edm")>>
        ELSE IF Contains(a, "photo") \/ Contains(a, "patapsco") THEN <<Text("rec_photo")>>
        ELSE IF Contains(a, "game") \/ Contains(a, "survev") \/ Contains(a, "surviv")
             THEN <<Text("rec_game")>>
        ELSE IF a = "" THEN <<Text("rec_generic")>>
        ELSE <<UserText("rec_not_sure", a0)>>

\* int() of a string of decimal digits
RECURSIVE int(_)
int(s) ==
    IF s = "" THEN 0
    ELSE LET d == CHOOSE v \in 0..9 : SubSeq(Digits, v + 1, v + 1) = SubSeq(s, Len(s), Len(s))
         IN  10 * int(SubSeq(s, 1, Len(s) - 1)) + d

\* sum(rolls)
RECURSIVE sum(_)
sum(rolls) == IF rolls = <<>> THEN 0 ELSE Head(rolls) + sum(Tail(rolls))

ROLL_USAGE == Text("roll_usage")
ROLL_BOUNDS == Text("roll_bounds")
\* the most dice handle_roll accepts
MaxDice == 100

\* a variant of handle_roll that refuses MaxDice dice too (n >= 100)
handle_roll_refuses_hundred(a) ==
    LET s0 == strip(a)
        s  == IF s0 = "" THEN "1d6" ELSE s0
        e  == RunEnd(s, 1, DigitChars)
        matched == /\ e + 1 <= Len(s)
                   /\ SubSeq(s, e + 1, e + 1) = "d"
                   /\ e + 2 <= Len(s)
                   /\ RunEnd(s, e + 2, DigitChars) = Len(s)
        n  == IF e >= 1 THEN int(SubSeq(s, 1, e)) ELSE 1
        m_sides == int(SubSeq(s, e + 2, Len(s)))
    IN  IF ~matched THEN { <<ROLL_USAGE>> }
        ELSE IF n <= 0 \/ m_sides <= 0 \/ n >= MaxDice THEN { <<ROLL_BOUNDS>> }
        ELSE { <<F("rolled", 0, "", <<n, m_sides>>),
                 F("rolls", 0, "", rolls),
                 F("sum", 0, "", <<sum(rolls)>>)>> :
                 rolls \in [1..n -> 1..m_sides] }

\* handle_roll(arg): the replies it can return.  The reply of a roll is
\* f"Rolled {n}d{m_sides}: {rolls} (sum: {sum(rolls)})"
handle_roll(a) ==
    LET s0 == strip(a)
        s  == IF s0 = "" THEN "1d6" ELSE s0
        \* re.match(r"(\d*)d(\d+)$", s)
        e  == RunEnd(s, 1, DigitChars)
        matched == /\ e + 1 <= Len(s)
                   /\ SubSeq(s, e + 1, e + 1) = "d"
                   /\ e + 2 <= Len(s)
                   /\ RunEnd(s, e + 2, DigitChars) = Len(s)
        n  == IF e >= 1 THEN int(SubSeq(s, 1, e)) ELSE 1
        m_sides == int(SubSeq(s, e + 2, Len(s)))
    IN  IF ~matched THEN { <<ROLL_USAGE>> }
        ELSE IF n <= 0 \/ m_sides <= 0 \/ n > MaxDice THEN { <<ROLL_BOUNDS>> }
        ELSE { <<F("rolled", 0, "", <<n, m_sides>>),
                 F("rolls", 0, "", rolls),
                 F("sum", 0, "", <<sum(rolls)>>)>> :
                 rolls \in [1..n -> 1..m_sides] }

\* a variant of handle_quiz that sets the tag and forgets the answer
handle_quiz_tag_only(a, conv) ==
    [conv |-> [awaiting |-> "ww2_end", answer |-> conv.answer],
     result |-> <<Text("quiz_question")>>]

\* handle_quiz(arg, conv): conv after the call, and the reply
handle_quiz(a, conv) ==
    [conv |-> [awaiting |-> "ww2_end", answer |-> "1945"], result |-> <<Text("quiz_question")>>]

\* the keys of COMMAND_HANDLERS
COMMAND_NAMES == {"photo", "rec", "recommend", "roll", "quiz"}

\* a variant of COMMAND_HANDLERS whose recommend entry is the quiz entry
COMMAND_HANDLERS_recommend_is_quiz(cmd, a, conv) ==
    CASE cmd = "photo" -> { [conv |-> conv, result |-> r] : r \in handle_photo(a) }
      [] cmd = "rec" -> { [conv |-> conv, result |-> handle_rec(a)] }
      [] cmd = "roll" -> { [conv |-> conv, result |-> r] : r \in handle_roll(a) }
      [] cmd \in {"quiz", "recommend"} ->
            { [conv |-> [awaiting |-> "ww2_end", answer |-> "1945"],
               result |-> <<Text("quiz_question")>>] }

\* COMMAND_HANDLERS[cmd](a, conv): the outcomes (conv after the call, reply)
\* of the handler; run_chat always passes its Conversation
COMMAND_HANDLERS(cmd, a, conv) ==
    CASE cmd = "photo" -> { [conv |-> conv, result |-> r] : r \in handle_photo(a) }
      [] cmd \in {"rec", "recommend"} -> { [conv |-> conv, result |-> handle_rec(a)] }
      [] cmd = "roll" -> { [conv |-> conv, result |-> r] : r \in handle_roll(a) }
      [] cmd = "quiz" -> { handle_quiz(a, conv) }

----------------------------------------------------------------------------
(* run_chat *)

\* Python truthiness of an Optional[str]
Truthy(v) == v # None /\ v # ""

\* re.sub(r"[^0-9]", "", s)
RECURSIVE digits_only(_)
digits_only(s) ==
    IF s = "" THEN ""
    ELSE (IF IsDigit(Head(s)) THEN Head(s) ELSE "") \o digits_only(Tail(s))

\* a variant of quiz_answer that compares the line itself, not its digits
quiz_answer_whole_line(text, conv) ==
    LET correct == IF Truthy(conv.answer) THEN conv.answer ELSE ""
    IN  [conv   |-> [awaiting |-> None, answer |-> None],
         result |-> IF text = correct
                    THEN <<Text("nice_1945")>>
                    ELSE <<UserText("not_quite", correct)>>]

\* the body of  if conv.awaiting == "ww2_end":  conv after it, and what it prints
quiz_answer(text, conv) ==
    LET ans == digits_only(text)
        correct == IF Truthy(conv.answer) THEN conv.answer ELSE ""
    IN  [conv   |-> [awaiting |-> None, answer |-> None],
         result |-> IF ans = correct
                    THEN <<Text("nice_1945")>>
                    ELSE <<UserText("not_quite", correct)>>]

\* the lines a user types (what input("> ") returns)
Lines ==
    { "", "   ", "exit", " QUIT ", "!quiz", "himmy, quiz", "/Quiz now",
      "1945", "19 45", "it was 1945!", "1944", "1945 or 1946", "nineteen forty five",
      "!roll 2d3", "!roll", "!roll 0d6", "!roll 101d6", "!roll 100d1", "!roll six",
      "!photo", "!photo bridges", "!rec edm", "himmy: recommend", "!rec jazz",
      "!dance", "himmy hello",
      "hello", "ww2 in 1945", "what?", "!roll-2" }

\* parse_command and build_response are pure: their values on the lines, computed once
Parsed == [l \in Lines |-> parse_command(strip(l))]
Responses == [l \in Lines |-> build_response(strip(l))]

\* print(random.choice(OPENERS), result): one line
OpenerLines(result) == { <<Opener(o)>> \o result : o \in Choice(NumOpeners) }

FAREWELL == <<Text("later_stay_vibey")>>
BANNER == <<Text("banner")>>

\* the state of conv as a record
Conv == [awaiting |-> awaiting, answer |-> answer]

\* the iteration reads l, which is neither blank nor the exit word
Reads(l) ==
    /\ running
    /\ line' = l
    /\ user_input' = strip(l)
    /\ strip(l) # ""
    /\ lower(strip(l)) \notin {"exit", "quit"}
    /\ running' = TRUE

\* the test that guards the quiz branch
AwaitsAnswer == Truthy(awaiting) /\ awaiting = "ww2_end"

\* input() raises EOFError or KeyboardInterrupt: a farewell after a line break, and break
Interrupt ==
    /\ running
    /\ running' = FALSE
    /\ path' = "interrupt"
    /\ printed' = << <<>>, FAREWELL >>
    /\ UNCHANGED <<awaiting, answer, line, user_input, handlers, fn, arg, ret, pc>>

\* if not user_input: continue
BlankLine(l) ==
    /\ running
    /\ strip(l) = ""
    /\ line' = l
    /\ user_input' = strip(l)
    /\ path' = "blank"
    /\ printed' = <<>>
    /\ UNCHANGED <<awaiting, answer, running, handlers, fn, arg, ret, pc>>

\* if user_input.lower() in {"exit", "quit"}: farewell and break
Quit(l) ==
    /\ running
    /\ strip(l) # ""
    /\ lower(strip(l)) \in {"exit", "quit"}
    /\ line' = l
    /\ user_input' = strip(l)
    /\ running' = FALSE
    /\ path' = "quit"
    /\ printed' = <<FAREWELL>>
    /\ UNCHANGED <<awaiting, answer, handlers, fn, arg, ret, pc>>

\* a variant of QuizAnswer without the continue: the judged line goes on to
\* the command parser and the responder
QuizAnswer_no_continue(l) ==
    /\ Reads(l)
    /\ AwaitsAnswer
    /\ LET out == quiz_answer(strip(l), Conv)
           c   == Parsed[l]
       IN  \E first \in OpenerLines(out.result) :
              IF Truthy(c.cmd) /\ c.cmd \in handlers
              THEN \E h \in COMMAND_HANDLERS(c.cmd, c.arg, out.conv) :
                      /\ awaiting' = h.conv.awaiting
                      /\ answer' = h.conv.answer
                      /\ printed' \in { <<first, ln>> : ln \in OpenerLines(h.result) }
              ELSE /\ awaiting' = out.conv.awaiting
                   /\ answer' = out.conv.answer
                   /\ printed' \in
                        { <<first, ln>> :
                            ln \in IF Truthy(c.cmd)
                                   THEN OpenerLines(<<UserText("unknown_command", c.cmd)>>)
                                   ELSE Responses[l] }
    /\ path' = "answer"
    /\ UNCHANGED <<handlers, fn, arg, ret, pc>>

\* the quiz branch: the line is judged as the answer, conv is cleared, continue
QuizAnswer(l) ==
    /\ Reads(l)
    /\ AwaitsAnswer
    /\ LET out == quiz_answer(strip(l), Conv)
       IN  /\ awaiting' = out.conv.awaiting
           /\ answer' = out.conv.answer
           /\ printed' \in { <<ln>> : ln \in OpenerLines(out.result) }
    /\ path' = "answer"
    /\ UNCHANGED <<handlers, fn, arg, ret, pc>>

\* a variant of Command that runs before the quiz branch is tested
Command_before_quiz(l) ==
    /\ Reads(l)
    /\ LET c == Parsed[l]
       IN  /\ Truthy(c.cmd)
           /\ c.cmd \in handlers
           /\ \E out \in COMMAND_HANDLERS(c.cmd, c.arg, Conv) :
                /\ awaiting' = out.conv.awaiting
                /\ answer' = out.conv.answer
                /\ printed' \in { <<ln>> : ln \in OpenerLines(out.result) }
    /\ path' = "command"
    /\ UNCHANGED <<handlers, fn, arg, ret, pc>>

\* a command with a handler: the handler's result behind an opener, continue
Command(l) ==
    /\ Reads(l)
    /\ ~AwaitsAnswer
    /\ LET c == Parsed[l]
       IN  /\ Truthy(c.cmd)
           /\ c.cmd \in handlers
           /\ \E out \in COMMAND_HANDLERS(c.cmd, c.arg, Conv) :
                /\ awaiting' = out.conv.awaiting
                /\ answer' = out.conv.answer
                /\ printed' \in { <<ln>> : ln \in OpenerLines(out.result) }
    /\ path' = "command"
    /\ UNCHANGED <<handlers, fn, arg, ret, pc>>

\* a variant of UnknownCommand without the continue: after the message the
\* line goes on to the responder
UnknownCommand_falls_through(l) ==
    /\ Reads(l)
    /\ ~AwaitsAnswer
    /\ LET c == Parsed[l]
       IN  /\ Truthy(c.cmd)
           /\ c.cmd \notin handlers
           /\ printed' \in
                { <<ln, r>> : ln \in OpenerLines(<<UserText("unknown_command", c.cmd)>>),
                              r \in Responses[l] }
    /\ path' = "intent"
    /\ UNCHANGED <<awaiting, answer, handlers, fn, arg, ret, pc>>

\* a command without a handler: the message that names it, continue
UnknownCommand(l) ==
    /\ Reads(l)
    /\ ~AwaitsAnswer
    /\ LET c == Parsed[l]
       IN  /\ Truthy(c.cmd)
           /\ c.cmd \notin handlers
           /\ printed' \in { <<ln>> : ln \in OpenerLines(<<UserText("unknown_command", c.cmd)>>) }
    /\ path' = "unknown_command"
    /\ UNCHANGED <<awaiting, answer, handlers, fn, arg, ret, pc>>

\* no command: print(build_response(user_input))
Respond(l) ==
    /\ Reads(l)
    /\ ~AwaitsAnswer
    /\ ~Truthy(Parsed[l].cmd)
    /\ printed' \in { <<r>> : r \in Responses[l] }
    /\ path' = "intent"
    /\ UNCHANGED <<awaiting, answer, handlers, fn, arg, ret, pc>>

\* run_chat up to its loop: the banner is printed and conv = Conversation()
Init ==
    /\ awaiting = None
    /\ answer = None
    /\ running = TRUE
    /\ line = None
    /\ user_input = None
    /\ path = "start"
    /\ printed = <<BANNER>>
    /\ handlers = COMMAND_NAMES
    /\ fn = "run_chat"
    /\ arg = ""
    /\ ret = None
    /\ pc = "call"

Next ==
    \/ Interrupt
    \/ \E l \in Lines : BlankLine(l)
    \/ \E l \in Lines : Quit(l)
    \/ \E l \in Lines : QuizAnswer(l)
    \/ \E l \in Lines : Command(l)
    \/ \E l \in Lines : UnknownCommand(l)
    \/ \E l \in Lines : Respond(l)

Spec == Init /\ [][Next]_vars

----------------------------------------------------------------------------
(* The functions called on their own *)

\* the phrases classifier inputs are built from
Vocabulary ==
    { "hi", "how are you", "ww2", "WWII", "world war 2", "World War II", "second world war",
      "postww2era", "walter", "apes", "patapsco", "patapsco sunset", "Ellicott City photo",
      "photo", "photos", "sled", "edm", "game", "history", "rec", "what?", "xyz" }

\* up to n phrases, joined by one space
RECURSIVE Phrases(_)
Phrases(n) ==
    IF n = 0 THEN {""}
    ELSE LET shorter == Phrases(n - 1)
         IN  shorter \cup Vocabulary \cup { p \o " " \o w : p \in shorter \ {""}, w \in Vocabulary }

\* the texts detect_intent is called on
ClassifyInputs == Phrases(MaxWords) \cup {"   ", " \t"}

\* the texts build_response is called on: blank ones, and one or two per branch
ComposeInputs ==
    { "", "   ", "  xyz  ", "hi", "hi what?", "ww2", "walter", "apes", "patapsco photo", "sled",
      "sunset", "edm", "game", "history", "rec", "what?", "hi xyz", "so it goes" }

\* the arguments handle_roll is called on
RollArgs ==
    { "", "d6", "2d3", "3d2", "1d1", "0d6", "00d6", "101d6", "100d1", "101d1", "2d0", "0d0",
      "d0", "d", "6", "2d", "2x6", "2D6", " 1d2 ", "-1d6", "1d-6", "2d6x", "x2d6", "1 d6",
      "dd6", "007d1", "d6 d6", "two dice" }

CallDetectIntent ==
    /\ fn = "detect_intent" /\ pc = "call"
    /\ ret' = detect_intent(arg)
    /\ pc' = "return"
    /\ UNCHANGED <<awaiting, answer, running, line, user_input, path, printed, handlers, fn, arg>>

CallBuildResponse ==
    /\ fn = "build_response" /\ pc = "call"
    /\ ret' \in build_response(arg)
    /\ pc' = "return"
    /\ UNCHANGED <<awaiting, answer, running, line, user_input, path, printed, handlers, fn, arg>>

CallHandleRoll ==
    /\ fn = "handle_roll" /\ pc = "call"
    /\ ret' \in handle_roll(arg)
    /\ pc' = "return"
    /\ UNCHANGED <<awaiting, answer, running, line, user_input, path, printed, handlers, fn, arg>>

\* one call of one function on one argument; no chat loop runs
InitFn ==
    /\ awaiting = None
    /\ answer = None
    /\ running = FALSE
    /\ line = None
    /\ user_input = None
    /\ path = "start"
    /\ printed = <<>>
    /\ handlers = COMMAND_NAMES
    /\ \/ fn = "detect_intent" /\ arg \in ClassifyInputs
       \/ fn = "build_response" /\ arg \in ComposeInputs
       \/ fn = "handle_roll" /\ arg \in RollArgs
    /\ ret = None
    /\ pc = "call"

NextFn ==
    \/ CallDetectIntent
    \/ CallBuildResponse
    \/ CallHandleRoll

SpecFn == InitFn /\ [][NextFn]_vars

----------------------------------------------------------------------------
(* Properties of the chat loop (specification Spec) *)

\* the step is a loop iteration in which input() returned line'
ReadsLine == path' # "interrupt"
\* the lines that are empty once trimmed, and those that are the exit or quit word
BlankLines == {l \in Lines : strip(l) = ""}
SentinelLines == {l \in Lines : lower(strip(l)) \in {"exit", "quit"}}
IsBlank(l) == l \in BlankLines
IsSentinel(l) == l \in SentinelLines
\* the printed line is the empty string
LineIsEmpty(ln) == ln = <<>> \/ (Len(ln) = 1 /\ IsEmptyPiece(ln[1]))
OneNonEmptyLine(out) == Len(out) = 1 /\ ~LineIsEmpty(out[1])

\* C1, as stated: an iteration that starts with a quiz answer awaited judges
\* its line as the answer, whatever the line is, and ends with no answer awaited.
C1_AnyLineIsJudged ==
    [][(awaiting = "ww2_end" /\ ReadsLine) => (path' = "answer" /\ awaiting' = None)]_vars

\* C1, amended: an iteration that starts with a quiz answer awaited and reads
\* a line that is neither blank nor the exit word judges the line as the answer,
\* never parses or classifies it, and ends with no answer awaited; a blank line
\* and the exit word leave the answer awaited.
C1_NonBlankLineIsJudged ==
    [][(awaiting = "ww2_end" /\ ReadsLine) =>
          IF IsBlank(line') \/ IsSentinel(line')
          THEN path' \in {"blank", "quit"} /\ awaiting' = "ww2_end"
          ELSE path' = "answer" /\ awaiting' = None /\ answer' = None]_vars

\* a line of the command grammar was judged as a quiz answer
C1_Witness == path = "answer" /\ awaiting = None /\ line \in Lines /\ Parsed[line].cmd = "roll"

\* C2: the expected answer is set exactly when the awaiting tag is set, and
\* then the tag is "ww2_end" and the expected answer "1945".
C2_AnswerIffAwaiting ==
    /\ (answer # None) <=> (awaiting # None)
    /\ awaiting # None => (awaiting = "ww2_end" /\ answer = "1945")

C2_Witness == awaiting = "ww2_end" /\ answer = "1945"

\* C3: an iteration that starts with nothing awaited ends with an answer
\* awaited only if its line parses to the command quiz; every other one
\* leaves conv.awaiting and conv.answer as they were.
C3_OnlyQuizLeavesIdle ==
    [][(awaiting = None /\ ReadsLine) =>
          /\ awaiting' # None => Parsed[line'].cmd = "quiz"
          /\ Parsed[line'].cmd # "quiz" => (awaiting' = awaiting /\ answer' = answer)]_vars

\* the quiz command has been dispatched from Idle
C3_Witness == path = "command" /\ Parsed[line].cmd = "quiz" /\ awaiting # None

\* C4, as stated: every line read, blank ones included, other than the exit
\* word, is answered by exactly one non-empty printed line.
C4_EveryLineAnswered ==
    [][(ReadsLine /\ ~IsSentinel(line')) => OneNonEmptyLine(printed')]_vars

\* C4, amended: every line read that is not blank and not the exit word is
\* answered by exactly one non-empty printed line before the next line is
\* read; a blank line is answered by nothing.
C4_NonBlankLineAnswered ==
    [][(ReadsLine /\ ~IsSentinel(line')) =>
          IF IsBlank(line') THEN printed' = <<>> ELSE OneNonEmptyLine(printed')]_vars

\* a line was answered while a quiz answer was awaited
C4_Witness == path = "answer" /\ OneNonEmptyLine(printed)

\* the number of digits among the first i characters of s
DigitRank(s, i) == Cardinality({j \in 1..i : IsDigit(SubSeq(s, j, j))})
\* the digits of s, in order, spell d
DigitsSpell(s, d) ==
    /\ DigitRank(s, Len(s)) = Len(d)
    /\ \A i \in 1..Len(s) :
          IsDigit(SubSeq(s, i, i)) => SubSeq(s, i, i) = SubSeq(d, DigitRank(s, i), DigitRank(s, i))

\* C9: the answer is affirmed exactly when the digits of the line, in order,
\* spell 1945, corrected with the year 1945 otherwise, and conv is cleared
\* in both cases.
C9_AnswerJudgedByDigits ==
    [][(awaiting = "ww2_end" /\ path' = "answer") =>
          /\ Len(printed') = 1 /\ Len(printed'[1]) = 2
          /\ IF DigitsSpell(line', "1945")
             THEN printed'[1][2] = Text("nice_1945")
             ELSE printed'[1][2] = UserText("not_quite", "1945")
          /\ awaiting' = None /\ answer' = None]_vars

\* an answer with other characters between and around its digits was affirmed
C9_Witness ==
    /\ path = "answer" /\ line = "19 45"
    /\ printed[1][2] = Text("nice_1945")
    /\ awaiting = None /\ answer = None

\* the names of the command table, as the claim lists them
TableNames == {"photo", "rec", "recommend", "roll", "quiz"}
\* the line matches the command grammar with a name outside the table
NamesUnknownCommand(l) == l \in Lines /\ Parsed[l].cmd # None /\ Parsed[l].cmd \notin TableNames
\* the one line printed is an opener and the unknown-command message for the
\* name (the sentence that ends "Try !rec or !photo.")
UnknownCommandMessage(out, name) ==
    /\ Len(out) = 1 /\ Len(out[1]) = 2
    /\ out[1][1].kind = "opener"
    /\ out[1][2] = UserText("unknown_command", name)

\* C11: with nothing awaited, a line of the command grammar whose name is not
\* in the command table is answered by the unknown-command message, is not
\* passed to the intent classifier, and leaves conv and the command table as
\* they were.
C11_UnknownCommandRejected ==
    [][(awaiting = None /\ ReadsLine /\ NamesUnknownCommand(line')) =>
          /\ path' = "unknown_command"
          /\ UnknownCommandMessage(printed', Parsed[line'].cmd)
          /\ awaiting' = awaiting /\ answer' = answer
          /\ handlers' = handlers /\ handlers' = TableNames]_vars

\* a line of the "himmy <name>" form whose name would be a greeting was rejected
C11_Witness ==
    /\ path = "unknown_command" /\ line = "himmy hello"
    /\ UnknownCommandMessage(printed, "hello")
    /\ awaiting = None /\ handlers = TableNames

----------------------------------------------------------------------------
(* Properties of the functions (specification SpecFn) *)

Returned(f) == fn = f /\ pc = "return"

\* the text triggers the greeting rule
GreetingRule(text) ==
    \/ \E n \in 1..Len(_GREET_KEYS) : WordMatch(lower(text), _GREET_KEYS[n])
    \/ \E n \in 1..Len(_SIMPLE_QS) : Contains(lower(text), _SIMPLE_QS[n])
ExplicitWW2 == {"ww2", "wwii", "world war 2", "world war ii", "second world war"}
HasWW2Token(text) == \E k \in ExplicitWW2 : Contains(text, k)

\* C5, as stated: a text that contains an explicit WWII token is classified
\* ww2, whatever else it contains.
C5_WW2Always == (Returned("detect_intent") /\ HasWW2Token(arg)) => ret = "ww2"

\* C5, amended: a text that contains an explicit WWII token, in any case of
\* letters, is classified ww2 unless it also triggers the greeting rule (a
\* whole-word greeting token or a simple question), which comes first and
\* classifies it greeting.
C5_WW2UnlessGreeting ==
    (Returned("detect_intent") /\ HasWW2Token(lower(arg))) =>
        ret = (IF GreetingRule(arg) THEN "greeting" ELSE "ww2")

\* a text with a WWII token and a keyword of another group was classified ww2
C5_Witness == Returned("detect_intent") /\ arg = "history ww2" /\ ret = "ww2"

HasKeyword(text, keys) == \E n \in 1..Len(keys) : WordMatch(lower(text), keys[n])
PatapscoAndPhoto(text) == HasKeyword(text, _PATAPSC0_KEYS) /\ HasKeyword(text, _PHOTO_KEYWORDS)
\* the text triggers one of the rules that come before the Patapsco-photo rule
EarlierRule(text) ==
    \/ GreetingRule(text)
    \/ HasWW2Token(lower(text))
    \/ Contains(lower(text), "walter")
    \/ HasKeyword(text, _APENV_KEYS)

\* C6, as stated: a text with a Patapsco-area keyword and a photography
\* keyword is classified patapsco_photo.
C6_PatapscoPhotoAlways ==
    (Returned("detect_intent") /\ PatapscoAndPhoto(arg)) => ret = "patapsco_photo"

\* C6, amended: a text in which a Patapsco-area keyword and a photography
\* keyword both occur as whole words is classified patapsco_photo unless the
\* greeting, ww2, mr_walters or apenv rule matches it first; it is never
\* classified photography, sled, edm, game, history, recommend,
\* unknown_question or nothing.
C6_PatapscoPhotoUnlessEarlier ==
    (Returned("detect_intent") /\ PatapscoAndPhoto(arg)) =>
        /\ (ret = "patapsco_photo") <=> ~EarlierRule(arg)
        /\ ret \in {"greeting", "ww2", "mr_walters", "apenv", "patapsco_photo"}

C6_Witness ==
    Returned("detect_intent") /\ arg = "photo patapsco sunset" /\ ret = "patapsco_photo"

\* s has the form [count]d<sides>: digits (none or more), a "d", digits (one or more)
DiceForm(s) ==
    \E k \in 1..(Len(s) - 1) :
        /\ SubSeq(s, k, k) = "d"
        /\ \A i \in 1..Len(s) : i # k => IsDigit(SubSeq(s, i, i))
\* the count and the sides a text of that form names
DicePos(s) == CHOOSE k \in 1..Len(s) : SubSeq(s, k, k) = "d"
DiceCount(s) == IF DicePos(s) = 1 THEN 1 ELSE int(SubSeq(s, 1, DicePos(s) - 1))
DiceSides(s) == int(SubSeq(s, DicePos(s) + 1, Len(s)))
DiceInBounds(s) == 1 <= DiceCount(s) /\ DiceCount(s) <= 100 /\ DiceSides(s) >= 1
\* the reply lists rolls
Rolled(r) == \E i \in DOMAIN r : r[i].kind = "rolls"
\* the sum of a list, from its last element
RECURSIVE Total(_)
Total(q) == IF Len(q) = 0 THEN 0 ELSE Total(SubSeq(q, 1, Len(q) - 1)) + q[Len(q)]
\* the reply of a roll of s: count rolls, each in 1..sides, and their sum
RollReplyFor(r, s) ==
    /\ Len(r) = 3
    /\ r[1].kind = "rolled" /\ r[1].nums = <<DiceCount(s), DiceSides(s)>>
    /\ r[2].kind = "rolls" /\ Len(r[2].nums) = DiceCount(s)
    /\ \A i \in 1..Len(r[2].nums) : r[2].nums[i] \in 1..DiceSides(s)
    /\ r[3].kind = "sum" /\ r[3].nums = <<Total(r[2].nums)>>
RollContract(r, s) ==
    /\ Rolled(r) <=> (DiceForm(s) /\ DiceInBounds(s))
    /\ Rolled(r) => RollReplyFor(r, s)
    /\ (DiceForm(s) /\ ~DiceInBounds(s)) => r = <<ROLL_BOUNDS>>

\* C7, as stated: handle_roll rolls exactly when its argument has the form
\* [count]d<sides> with 1 <= count <= 100 and sides >= 1; then the reply lists
\* count rolls in 1..sides and their sum; out of these bounds the reply is the
\* bounds message and nothing is rolled.
C7_RollsIffArgumentIsDice == Returned("handle_roll") => RollContract(ret, arg)

\* C7, amended: the same of the argument as handle_roll reads it: trimmed,
\* and "1d6" when that leaves nothing.
EffectiveRollArg(a) == IF strip(a) = "" THEN "1d6" ELSE strip(a)
C7_RollsIffEffectiveArgumentIsDice ==
    Returned("handle_roll") => RollContract(ret, EffectiveRollArg(arg))

\* the most dice allowed were rolled
C7_Witness == Returned("handle_roll") /\ arg = "100d1" /\ Rolled(ret) /\ ret[3].nums = <<100>>

Echoes(r) == {i \in DOMAIN r : r[i].kind = "echo"}

\* C8: a reply echoes the trimmed text only when the text is classified as
\* nothing and is not blank; a reply for a classified text, and the reply for
\* a blank one, has no echo.
C8_EchoOnlyInFallback ==
    Returned("build_response") =>
        /\ Echoes(ret) # {} => (detect_intent(arg) = None /\ strip(arg) # "")
        /\ \A i \in Echoes(ret) : ret[i].text = strip(arg)

\* a fallback reply echoed the trimmed text
C8_Witness == Returned("build_response") /\ arg = "  xyz  " /\ Echoes(ret) # {}

Topical ==
    {"greeting", "ww2", "mr_walters", "apenv", "patapsco_photo", "sled", "photography", "edm",
     "game", "history", "recommend"}
HasKind(r, k) == \E i \in DOMAIN r : r[i].kind = k
\* the flavor line of the intent, a quip, the tagline and a follow-up, in this order
FlavorQuipTaglineFollowUp(r, intent) ==
    \E i, j, k, l \in DOMAIN r :
        /\ i < j /\ j < k /\ k < l
        /\ r[i].kind = "flavor" /\ r[i].text = intent
        /\ r[j].kind = "quip"
        /\ r[k] = SURVEV_LINE
        /\ r[l].kind = "follow_up"
\* the same without the quip
FlavorTaglineFollowUp(r, intent) ==
    \E i, k, l \in DOMAIN r :
        /\ i < k /\ k < l
        /\ r[i].kind = "flavor" /\ r[i].text = intent
        /\ r[k] = SURVEV_LINE
        /\ r[l].kind = "follow_up"
NoQuipNoTagline(r) == ~HasKind(r, "quip") /\ ~HasKind(r, "SURVEV_LINE")

\* C10, as stated: the reply for every topical intent holds, in order, the
\* flavor line, the quip, the tagline and the follow-up; the reply for
\* unknown_question holds neither the quip nor the tagline.
C10_EveryTopicalReplyHasQuip ==
    Returned("build_response") =>
        /\ detect_intent(arg) \in Topical => FlavorQuipTaglineFollowUp(ret, detect_intent(arg))
        /\ detect_intent(arg) = "unknown_question" => NoQuipNoTagline(ret)

\* C10, amended: the reply for every topical intent other than greeting
\* holds, in order, the flavor line, the quip, the tagline and the follow-up;
\* the reply for greeting holds its flavor line, the tagline and the
\* follow-up, in order, and no quip; the reply for unknown_question holds
\* neither the quip nor the tagline.
C10_TopicalReplyShape ==
    Returned("build_response") =>
        LET intent == detect_intent(arg)
        IN  /\ intent \in Topical \ {"greeting"} => FlavorQuipTaglineFollowUp(ret, intent)
            /\ intent = "greeting" =>
                  (FlavorTaglineFollowUp(ret, intent) /\ ~HasKind(ret, "quip"))
            /\ intent = "unknown_question" => NoQuipNoTagline(ret)

\* a topical reply with a fixed sentence between the flavor line and the quip
C10_Witness ==
    /\ Returned("build_response") /\ arg = "ww2"
    /\ FlavorQuipTaglineFollowUp(ret, "ww2")
    /\ HasKind(ret, "fixed")

====
